---- MODULE Spec2Model ----
(***************************************************************************)
(* State-machine model of the select widget's option list controller      *)
(* (VscodeSelectBase): option list, keyboard navigation, dropdown          *)
(* visibility with its window-level outside-click listener, and the        *)
(* filter-method setter with the derived filtered view.                    *)
(*                                                                         *)
(* Text (labels, values, patterns) is modelled as sequences of one-letter  *)
(* strings so that matching can inspect characters; the empty JS string    *)
(* is <<>>.  JS indices are 0-based, TLA+ sequences 1-based: the option    *)
(* at JS index i is options[i + 1].                                        *)
(***************************************************************************)
EXTENDS Integers, Sequences, FiniteSets, TLC

VARIABLES
    options,          \* _options: InternalOption[]
    selectedIndex,    \* _selectedIndex
    activeIndex,      \* _activeIndex
    showDropdown,     \* _showDropdown (dropdownVisible)
    ariaExpanded,     \* ariaExpanded, "true" / "false"
    windowListeners,  \* the window's 'click' event listener list (callback ids)
    multiple,         \* _multiple
    combobox,         \* combobox
    filter,           \* _filter
    filterPattern,    \* _filterPattern
    value,            \* _value
    emitted,          \* events dispatched by the last handler
    warned,           \* console.warn diagnostics of the last handler
    threw,            \* TRUE iff the last handler raised a TypeError
    lastOp,           \* the last operation and its argument
    prevOp,           \* the operation before the last one
    returned,         \* the value the last operation returned (<<>>: none)
    lastList,         \* the list last passed to the options setter
    host,             \* the element: connected, its own listeners, focused
    button,           \* a VscodeButton: disabled, its attribute, tab index,
                      \* type, form association
    formCalls         \* form methods called by the last button handler

vars == <<options, selectedIndex, activeIndex, showDropdown, ariaExpanded,
          windowListeners, multiple, combobox, filter, filterPattern, value,
          emitted, warned, threw, lastOp, prevOp, returned, lastList, host,
          button, formCalls>>

\* the history kept for some specifications only
hist == <<prevOp, lastList>>

\* the controller's own state, without the observation variables
ctrlVars == <<options, selectedIndex, activeIndex, showDropdown, ariaExpanded,
              windowListeners, multiple, combobox, filter, filterPattern, value>>

----------------------------------------------------------------------------
(* Bounds *)

MaxLen == 3       \* longest option list passed to setOptions
MaxNodes == 3     \* longest node sequence handed to ingestFromSource

(* Input domains *)

SeqsUpTo(S, n) == UNION {[1..k -> S] : k \in 0..n}

\* entries passed to the options setter by the navigation specification
OptionInputs ==
    {[label |-> <<"a">>, value |-> <<"a">>, description |-> <<>>,
      selected |-> s] : s \in BOOLEAN}

OptionLists == SeqsUpTo(OptionInputs, MaxLen)

\* a text node (not an element)
TextNode == [isElement |-> FALSE, matchesOption |-> FALSE, innerText |-> <<"a">>,
             hasValue |-> FALSE, value |-> <<>>, description |-> <<>>,
             selected |-> FALSE]

\* vscode-select-option elements: selected without a value attribute,
\* unselected with one
OptionNodes ==
    {[isElement |-> TRUE, matchesOption |-> TRUE, innerText |-> <<"a">>,
      hasValue |-> ~sel, value |-> IF sel THEN <<>> ELSE <<"b", "a">>,
      description |-> <<>>, selected |-> sel] : sel \in BOOLEAN}

Nodes == {TextNode} \cup OptionNodes

NodeLists == SeqsUpTo(Nodes, MaxNodes)

\* entries passed to the options setter by the filter specification
FilterLabels == {<<"a", "b">>, <<"b", "a">>, <<"c", " ", "b">>}

FilterOptionInputs ==
    {[label |-> l, value |-> l, description |-> <<>>, selected |-> FALSE] :
        l \in FilterLabels}

FilterOptionLists == SeqsUpTo(FilterOptionInputs, MaxLen)

Patterns == {<<>>, <<"b">>, <<"a", "b">>, <<"c", "b">>}

Keys == {"Enter", " ", "Escape", "Tab", "ArrowUp", "ArrowDown", "a"}

FilterInputs == {"contains", "fuzzy", "startsWith", "startsWithPerTerm",
                 "startsWithPerm", "regex", ""}

----------------------------------------------------------------------------
(* Filter-method setter *)

validValues == {"contains", "fuzzy", "startsWith", "startsWithPerTerm"}

\* the method names the warning text lists as valid
WarnedValidValues == {"contains", "fuzzy", "startsWith", "startsWithPerm"}

\* a variant without the fallback
FilterOfNoFallback(val) == val

FilterOf(val) == IF val \in validValues THEN val ELSE "fuzzy"

FilterWarnings(val) ==
    IF val \in validValues THEN <<>>
    ELSE <<[invalid |-> val, validListed |-> WarnedValidValues]>>

----------------------------------------------------------------------------
(* The filtered view.  filterOptionsByPattern lives in includes/helpers;   *)
(* the four matchers follow their description: substring, prefix, prefix   *)
(* of the label or of a whitespace-delimited term, in-order subsequence.   *)

OccursAt(text, pat, k) ==
    /\ k >= 1
    /\ k + Len(pat) - 1 <= Len(text)
    /\ SubSeq(text, k, k + Len(pat) - 1) = pat

MatchContains(text, pat) == \E k \in 1..(Len(text) + 1) : OccursAt(text, pat, k)

MatchStartsWith(text, pat) == OccursAt(text, pat, 1)

MatchStartsWithPerTerm(text, pat) ==
    \E k \in 1..(Len(text) + 1) :
        /\ k = 1 \/ text[k - 1] = " "
        /\ OccursAt(text, pat, k)

RECURSIVE MatchFuzzy(_, _)
MatchFuzzy(text, pat) ==
    IF pat = <<>> THEN TRUE
    ELSE IF text = <<>> THEN FALSE
    ELSE IF Head(text) = Head(pat) THEN MatchFuzzy(Tail(text), Tail(pat))
    ELSE MatchFuzzy(Tail(text), pat)

Matches(text, pat, method) ==
    CASE method = "contains" -> MatchContains(text, pat)
      [] method = "startsWith" -> MatchStartsWith(text, pat)
      [] method = "startsWithPerTerm" -> MatchStartsWithPerTerm(text, pat)
      [] OTHER -> MatchFuzzy(text, pat)

\* one pass over opts[1..n] that collects the entries whose label matches
RECURSIVE FilterCollect(_, _, _, _)
FilterCollect(opts, pat, method, n) ==
    IF n = 0 THEN <<>>
    ELSE LET acc == FilterCollect(opts, pat, method, n - 1)
         IN IF Matches(opts[n].label, pat, method) THEN Append(acc, opts[n])
            ELSE acc

\* a variant that ranks the result: entries whose label starts with the
\* pattern come first, the other matches after them
FilterOptionsByPatternRanked(opts, pat, method) ==
    LET all == FilterCollect(opts, pat, method, Len(opts))
    IN SelectSeq(all, LAMBDA o : MatchStartsWith(o.label, pat))
       \o SelectSeq(all, LAMBDA o : ~MatchStartsWith(o.label, pat))

FilterOptionsByPattern(opts, pat, method) ==
    FilterCollect(opts, pat, method, Len(opts))

\* a variant that filters outside combobox mode too
FilteredOptionsAnyMode(opts, cb, pat, method) ==
    IF pat = <<>> THEN opts
    ELSE FilterOptionsByPattern(opts, pat, method)

\* the _filteredOptions getter
FilteredOptions(opts, cb, pat, method) ==
    IF ~cb \/ pat = <<>> THEN opts
    ELSE FilterOptionsByPattern(opts, pat, method)

----------------------------------------------------------------------------
(* Option list construction *)

\* opts.map((op, index) => ({...op, index}))
WithIndex(opts) ==
    [i \in 1..Len(opts) |->
        [label |-> opts[i].label, value |-> opts[i].value,
         description |-> opts[i].description, selected |-> opts[i].selected,
         index |-> i - 1]]

\* a variant that hands out the internal entries as they are
GetOptionsInternal(opts) == opts

\* the options getter: index stripped
GetOptions(opts) ==
    [i \in 1..Len(opts) |->
        [label |-> opts[i].label, value |-> opts[i].value,
         description |-> opts[i].description, selected |-> opts[i].selected]]

IsOptionNode(el) == el.isElement /\ el.matchesOption

NodeValue(el) == IF el.hasValue THEN el.value ELSE el.innerText

\* a variant that numbers an option by its position among all nodes
RECURSIVE IngestOptionsNodeIndex(_, _)
IngestOptionsNodeIndex(nodes, n) ==
    IF n = 0 THEN <<>>
    ELSE LET acc == IngestOptionsNodeIndex(nodes, n - 1)
             el == nodes[n]
         IN IF ~IsOptionNode(el) THEN acc
            ELSE Append(acc, [label |-> el.innerText, value |-> NodeValue(el),
                              description |-> el.description,
                              selected |-> el.selected,
                              index |-> n - 1])

\* the forEach loop of _addOptionsFromSlottedElements over nodes[1..n]:
\* currentIndex is the length returned by the previous push
RECURSIVE IngestOptions(_, _)
IngestOptions(nodes, n) ==
    IF n = 0 THEN <<>>
    ELSE LET acc == IngestOptions(nodes, n - 1)
             el == nodes[n]
         IN IF ~IsOptionNode(el) THEN acc
            ELSE Append(acc, [label |-> el.innerText, value |-> NodeValue(el),
                              description |-> el.description,
                              selected |-> el.selected,
                              index |-> Len(acc)])

\* the OptionListStat returned by _addOptionsFromSlottedElements
IngestStat(nodes) ==
    LET opts == IngestOptions(nodes, Len(nodes))
        sel == SelectSeq(opts, LAMBDA o : o.selected)
    IN [selectedIndexes |-> [i \in 1..Len(sel) |-> sel[i].index],
        values |-> [i \in 1..Len(sel) |-> sel[i].value]]

----------------------------------------------------------------------------
(* Dropdown visibility and the window-level listener *)

\* the one bound callback created at construction
OnClickOutsideBound == 0

\* DOM: adding a listener already in the list (same type, callback) is ignored
AddEventListener(list, cb) ==
    IF \E i \in 1..Len(list) : list[i] = cb THEN list ELSE Append(list, cb)

\* DOM: removes the matching listener, if any
RemoveEventListener(list, cb) == SelectSeq(list, LAMBDA x : x # cb)

\* a variant that binds a new callback on every call
ToggleListenersRebind(list, visible) ==
    IF visible THEN AddEventListener(list, Len(list) + 1) ELSE list

\* the listener part of _toggleDropdown
ToggleListeners(list, visible) ==
    IF visible THEN AddEventListener(list, OnClickOutsideBound)
    ELSE RemoveEventListener(list, OnClickOutsideBound)

\* String(visible)
BoolString(b) == IF b THEN "true" ELSE "false"

\* _toggleDropdown(visible) as an update of the three fields it writes
ToggleDropdown(visible) ==
    /\ showDropdown' = visible
    /\ ariaExpanded' = BoolString(visible)
    /\ windowListeners' = ToggleListeners(windowListeners, visible)

----------------------------------------------------------------------------
(* Change notification *)

\* a variant that notifies in every mode
DispatchAlways(mult, sel, val) ==
    <<[type |-> "vsc-change", selectedIndex |-> sel, value |-> val]>>

\* _dispatchChangeEvent: the events it dispatches
DispatchChangeEvent(mult, sel, val) ==
    IF ~mult
    THEN <<[type |-> "vsc-change", selectedIndex |-> sel, value |-> val]>>
    ELSE <<>>

----------------------------------------------------------------------------
(* Arrow-key navigation.  this._options[i].selected = b raises a TypeError *)
(* when this._options[i] is undefined; the statements before it have       *)
(* already taken effect.                                                   *)

InRange(opts, i) == i >= 0 /\ i < Len(opts)

SetSelected(opts, i, b) == [opts EXCEPT ![i + 1].selected = b]

NavResult(opts, sel, act, ev, err) ==
    [options |-> opts, selectedIndex |-> sel, activeIndex |-> act,
     emitted |-> ev, threw |-> err]

ArrowUpGuard(sel) == sel > 0

\* a variant that is off by one at the end of the list
ArrowDownGuardOffByOne(sel, len) == sel < len

ArrowDownGuard(sel, len) == sel < len - 1

\* body of the ArrowUp branch
ArrowUpBody(opts, sel, act, mult, val) ==
    IF ~InRange(opts, sel) THEN NavResult(opts, sel, act, <<>>, TRUE)
    ELSE LET o1 == SetSelected(opts, sel, FALSE)
             s1 == sel - 1
         IN IF ~InRange(o1, s1) THEN NavResult(o1, s1, s1, <<>>, TRUE)
            ELSE NavResult(SetSelected(o1, s1, TRUE), s1, s1,
                           DispatchChangeEvent(mult, s1, val), FALSE)

\* body of the ArrowDown branch
ArrowDownBody(opts, sel, act, mult, val) ==
    IF sel # -1 /\ ~InRange(opts, sel) THEN NavResult(opts, sel, act, <<>>, TRUE)
    ELSE LET o1 == IF sel = -1 THEN opts ELSE SetSelected(opts, sel, FALSE)
             s1 == IF sel = -1 THEN 0 ELSE sel + 1
         IN IF ~InRange(o1, s1) THEN NavResult(o1, s1, s1, <<>>, TRUE)
            ELSE NavResult(SetSelected(o1, s1, TRUE), s1, s1,
                           DispatchChangeEvent(mult, s1, val), FALSE)

\* the two arrow branches of _onComponentKeyDown
ArrowResult(key, opts, sel, act, mult, val) ==
    IF key = "ArrowUp" /\ ArrowUpGuard(sel)
    THEN ArrowUpBody(opts, sel, act, mult, val)
    ELSE IF key = "ArrowDown" /\ ArrowDownGuard(sel, Len(opts))
    THEN ArrowDownBody(opts, sel, act, mult, val)
    ELSE NavResult(opts, sel, act, <<>>, FALSE)

----------------------------------------------------------------------------
(* The button element (VscodeButton) *)

ButtonTypes == {"submit", "reset", "button"}

\* after construction: the field initialisers, outside any form; the
\* initialiser of the reflected disabled property leaves its reflection
\* pending until the first update
InitialButton ==
    [disabled |-> FALSE, disabledAttr |-> FALSE, tabIndex |-> 0,
     prevTabindex |-> 0, type |-> "button", inForm |-> FALSE,
     reflectPending |-> TRUE]

\* attributeChangedCallback('disabled'): the base class mirrors the attribute
\* into the property, then the tab index is parked or restored
ButtonAttributeChanged(b, has) ==
    [b EXCEPT !.disabledAttr = has,
              !.disabled = has,
              !.prevTabindex = IF has THEN b.tabIndex ELSE @,
              !.tabIndex = IF has THEN -1 ELSE b.prevTabindex]

\* the disabled part of an update: a property changed since the last
\* update is written to the attribute whatever the attribute is; setting a
\* present attribute calls attributeChangedCallback again, removing an
\* absent one calls nothing
ButtonReflect(b) ==
    LET c == IF ~b.reflectPending THEN b
             ELSE IF b.disabled THEN ButtonAttributeChanged(b, TRUE)
             ELSE IF b.disabledAttr THEN ButtonAttributeChanged(b, FALSE)
             ELSE b
    IN [c EXCEPT !.reflectPending = FALSE]

\* a variant that reads the property instead of the attribute
ButtonIsDisabledProperty(b) == b.disabled

\* this.hasAttribute('disabled')
ButtonIsDisabled(b) == b.disabledAttr

\* _executeAction(): the form methods it calls
ExecuteAction(type, inForm) ==
    (IF type = "submit" /\ inForm THEN <<"requestSubmit">> ELSE <<>>)
    \o (IF type = "reset" /\ inForm THEN <<"reset">> ELSE <<>>)

VscClick(original) == [type |-> "vsc-click", originalEvent |-> original]

ButtonKeys == {"Enter", " ", "a"}

----------------------------------------------------------------------------
(* Initial state: the field initialisers; _multiple is false in the base  *)
(* class and set by the multi-select subclass                             *)

Op(name, arg) == [op |-> name, arg |-> arg]

Init ==
    /\ options = <<>>
    /\ selectedIndex = -1
    /\ activeIndex = -1
    /\ showDropdown = FALSE
    /\ ariaExpanded = "false"
    /\ windowListeners = <<>>
    /\ multiple \in BOOLEAN
    /\ combobox = FALSE
    /\ filter = "fuzzy"
    /\ filterPattern = <<>>
    /\ value = <<>>
    /\ emitted = <<>>
    /\ warned = <<>>
    /\ threw = FALSE
    /\ lastOp = Op("init", "")
    /\ prevOp = Op("init", "")
    /\ returned = <<>>
    /\ lastList = <<>>
    /\ host = [connected |-> FALSE, listeners |-> {}, focused |-> FALSE,
               dataCloak |-> FALSE]
    /\ button = InitialButton
    /\ formCalls = <<>>

\* every operation records itself
Observe(name, arg) == lastOp' = Op(name, arg)

\* an operation of the select that returns nothing and leaves the element's
\* lifecycle state alone; the button is another element
SelectOnly == returned' = <<>> /\ UNCHANGED <<host, button, formCalls>>

----------------------------------------------------------------------------
(* Operations *)

\* set options(opts)
SetOptions(opts) ==
    /\ options' = WithIndex(opts)
    /\ emitted' = <<>> /\ warned' = <<>> /\ threw' = FALSE
    /\ SelectOnly
    /\ Observe("setOptions", "")
    /\ UNCHANGED <<selectedIndex, activeIndex, showDropdown, ariaExpanded,
                   windowListeners, multiple, combobox, filter, filterPattern,
                   value>>

\* get options()
GetOptionsOp ==
    /\ returned' = GetOptions(options)
    /\ emitted' = <<>> /\ warned' = <<>> /\ threw' = FALSE
    /\ Observe("getOptions", "")
    /\ UNCHANGED ctrlVars
    /\ UNCHANGED <<host, button, formCalls>>

\* _addOptionsFromSlottedElements() over the slot's assigned nodes
IngestFromSource(nodes) ==
    /\ options' = IngestOptions(nodes, Len(nodes))
    /\ emitted' = <<>> /\ warned' = <<>> /\ threw' = FALSE
    /\ returned' = IngestStat(nodes)
    /\ UNCHANGED <<host, button, formCalls>>
    /\ Observe("ingestFromSource",
               IF \E i \in 1..Len(nodes) : ~IsOptionNode(nodes[i])
               THEN "skipped" ELSE "all")
    /\ UNCHANGED <<selectedIndex, activeIndex, showDropdown, ariaExpanded,
                   windowListeners, multiple, combobox, filter, filterPattern,
                   value>>

\* set filter(val)
SetFilter(val) ==
    /\ filter' = FilterOf(val)
    /\ warned' = FilterWarnings(val)
    /\ emitted' = <<>> /\ threw' = FALSE
    /\ SelectOnly
    /\ Observe("setFilter", val)
    /\ UNCHANGED <<options, selectedIndex, activeIndex, showDropdown,
                   ariaExpanded, windowListeners, multiple, combobox,
                   filterPattern, value>>

\* combobox = b (public property)
SetCombobox(b) ==
    /\ combobox' = b
    /\ emitted' = <<>> /\ warned' = <<>> /\ threw' = FALSE
    /\ SelectOnly
    /\ Observe("setCombobox", BoolString(b))
    /\ UNCHANGED <<options, selectedIndex, activeIndex, showDropdown,
                   ariaExpanded, windowListeners, multiple, filter,
                   filterPattern, value>>

\* typed filter text: the subclass's input handler stores it in _filterPattern
OnFilterInput(pat) ==
    /\ filterPattern' = pat
    /\ emitted' = <<>> /\ warned' = <<>> /\ threw' = FALSE
    /\ SelectOnly
    /\ Observe("filterInput", "")
    /\ UNCHANGED <<options, selectedIndex, activeIndex, showDropdown,
                   ariaExpanded, windowListeners, multiple, combobox, filter,
                   value>>

\* _toggleDropdown(visible)
ToggleDropdownOp(visible) ==
    /\ ToggleDropdown(visible)
    /\ emitted' = <<>> /\ warned' = <<>> /\ threw' = FALSE
    /\ SelectOnly
    /\ Observe("toggleDropdown", BoolString(visible))
    /\ UNCHANGED <<options, selectedIndex, activeIndex, multiple, combobox,
                   filter, filterPattern, value>>

\* _onFaceClick()
OnFaceClick ==
    /\ ToggleDropdown(~showDropdown)
    /\ emitted' = <<>> /\ warned' = <<>> /\ threw' = FALSE
    /\ SelectOnly
    /\ Observe("faceClick", "")
    /\ UNCHANGED <<options, selectedIndex, activeIndex, multiple, combobox,
                   filter, filterPattern, value>>

\* _onComboboxButtonClick()
OnComboboxButtonClick ==
    /\ filterPattern' = <<>>
    /\ ToggleDropdown(~showDropdown)
    /\ emitted' = <<>> /\ warned' = <<>> /\ threw' = FALSE
    /\ SelectOnly
    /\ Observe("comboboxButtonClick",
               IF filterPattern # <<>> THEN "cleared" ELSE "")
    /\ UNCHANGED <<options, selectedIndex, activeIndex, multiple, combobox,
                   filter, value>>

\* a variant that closes whatever the path is
ClickIsOutsideAlways(inPath) == TRUE

\* found === -1, inPath being whether event.composedPath() contains this
ClickIsOutside(inPath) == ~inPath

\* a click delivered to the window: _onClickOutside runs only while a
\* bound callback is in the window's listener list
OnClickOutside(inPath) ==
    /\ Len(windowListeners) > 0
    /\ IF ClickIsOutside(inPath)
       THEN /\ showDropdown' = FALSE
            /\ ariaExpanded' = BoolString(FALSE)
            /\ windowListeners' =
                 RemoveEventListener(ToggleListeners(windowListeners, FALSE),
                                     OnClickOutsideBound)
       ELSE UNCHANGED <<showDropdown, ariaExpanded, windowListeners>>
    /\ emitted' = <<>> /\ warned' = <<>> /\ threw' = FALSE
    /\ SelectOnly
    /\ Observe("windowClick", IF inPath THEN "inside" ELSE "outside")
    /\ UNCHANGED <<options, selectedIndex, activeIndex, multiple, combobox,
                   filter, filterPattern, value>>

\* a variant in which Space toggles like Enter
KeyVisibilitySpaceToggles(key, show) ==
    IF key \in {"Enter", " "} THEN ~show
    ELSE IF key \in {"Escape", "Tab"} THEN FALSE
    ELSE show

\* the visibility the Enter, Space, Escape and Tab branches ask for
KeyVisibility(key, show) ==
    IF key = "Enter" THEN ~show
    ELSE IF key = " " THEN TRUE
    ELSE IF key \in {"Escape", "Tab"} THEN FALSE
    ELSE show

\* _onComponentKeyDown(event): Enter goes through _toggleDropdown, Space,
\* Escape and Tab assign _showDropdown
OnComponentKeyDown(key) ==
    LET r == ArrowResult(key, options, selectedIndex, activeIndex, multiple, value)
    IN /\ IF key = "Enter"
          THEN ToggleDropdown(KeyVisibility(key, showDropdown))
          ELSE /\ showDropdown' = KeyVisibility(key, showDropdown)
               /\ UNCHANGED <<ariaExpanded, windowListeners>>
       /\ options' = r.options
       /\ selectedIndex' = r.selectedIndex
       /\ activeIndex' = r.activeIndex
       /\ emitted' = r.emitted
       /\ threw' = r.threw
       /\ warned' = <<>>
       /\ SelectOnly
       /\ Observe("keydown", key)
       /\ UNCHANGED <<multiple, combobox, filter, filterPattern, value>>

\* the listeners connectedCallback adds to the element itself
HostEvents == {"keydown", "focus", "blur"}

\* an operation on the element's lifecycle state
HostOnly ==
    /\ emitted' = <<>> /\ warned' = <<>> /\ threw' = FALSE
    /\ returned' = <<>>
    /\ UNCHANGED ctrlVars
    /\ UNCHANGED <<button, formCalls>>

\* connectedCallback()
ConnectedCallback ==
    /\ ~host.connected
    /\ host' = [host EXCEPT !.connected = TRUE,
                            !.dataCloak = FALSE,
                            !.listeners = @ \cup HostEvents]
    /\ Observe("connected", "")
    /\ HostOnly

\* disconnectedCallback()
DisconnectedCallback ==
    /\ host.connected
    /\ host' = [host EXCEPT !.connected = FALSE,
                            !.listeners = @ \ HostEvents]
    /\ Observe("disconnected", "")
    /\ HostOnly

\* _onComponentFocus()
OnComponentFocus ==
    /\ "focus" \in host.listeners
    /\ host' = [host EXCEPT !.focused = TRUE]
    /\ Observe("focus", "")
    /\ HostOnly

\* _onComponentBlur()
OnComponentBlur ==
    /\ "blur" \in host.listeners
    /\ host' = [host EXCEPT !.focused = FALSE]
    /\ Observe("blur", "")
    /\ HostOnly

\* an operation of the button: the select is another element
ButtonOnly ==
    /\ warned' = <<>> /\ threw' = FALSE /\ returned' = <<>>
    /\ UNCHANGED ctrlVars
    /\ UNCHANGED host

\* button.disabled = v; a changed value is reflected at the next update
ButtonSetDisabled(v) ==
    /\ button' = IF v = button.disabled THEN button
                 ELSE [button EXCEPT !.disabled = v, !.reflectPending = TRUE]
    /\ emitted' = <<>> /\ formCalls' = <<>>
    /\ Observe("buttonSetDisabled", BoolString(v))
    /\ ButtonOnly

\* an update of the element
ButtonUpdate ==
    /\ button' = ButtonReflect(button)
    /\ emitted' = <<>> /\ formCalls' = <<>>
    /\ Observe("buttonUpdate", "")
    /\ ButtonOnly

\* setAttribute('disabled', '') / removeAttribute('disabled'); removing an
\* absent attribute calls nothing back
ButtonSetAttribute(has) ==
    /\ button' = IF ~has /\ ~button.disabledAttr THEN button
                 ELSE ButtonAttributeChanged(button, has)
    /\ emitted' = <<>> /\ formCalls' = <<>>
    /\ Observe("buttonSetAttribute", BoolString(has))
    /\ ButtonOnly

\* button.type = t
ButtonSetType(t) ==
    /\ button' = [button EXCEPT !.type = t]
    /\ emitted' = <<>> /\ formCalls' = <<>>
    /\ Observe("buttonSetType", t)
    /\ ButtonOnly

\* the button is moved into or out of a form (_internals.form)
ButtonSetForm(f) ==
    /\ button' = [button EXCEPT !.inForm = f]
    /\ emitted' = <<>> /\ formCalls' = <<>>
    /\ Observe("buttonSetForm", BoolString(f))
    /\ ButtonOnly

\* _handleClick(event)
ButtonHandleClick ==
    /\ IF ~ButtonIsDisabled(button)
       THEN /\ emitted' = <<VscClick("event")>>
            /\ formCalls' = ExecuteAction(button.type, button.inForm)
       ELSE emitted' = <<>> /\ formCalls' = <<>>
    /\ Observe("buttonClick", "")
    /\ UNCHANGED button
    /\ ButtonOnly

\* _handleKeyDown(event)
ButtonHandleKeyDown(key) ==
    /\ IF key \in {"Enter", " "} /\ ~ButtonIsDisabled(button)
       THEN /\ emitted' = <<VscClick("click")>>
            /\ formCalls' = ExecuteAction(button.type, button.inForm)
       ELSE emitted' = <<>> /\ formCalls' = <<>>
    /\ Observe("buttonKeydown", key)
    /\ UNCHANGED button
    /\ ButtonOnly

----------------------------------------------------------------------------
(* Specifications *)

\* navigation: list replacement, ingestion, key events and the dropdown
\* operations, in either selection mode
Next ==
    \/ \E opts \in OptionLists : SetOptions(opts) /\ UNCHANGED hist
    \/ \E nodes \in NodeLists : IngestFromSource(nodes) /\ UNCHANGED hist
    \/ \E key \in Keys : OnComponentKeyDown(key) /\ UNCHANGED hist
    \/ \E visible \in BOOLEAN : ToggleDropdownOp(visible) /\ UNCHANGED hist
    \/ OnFaceClick /\ UNCHANGED hist
    \/ \E inPath \in BOOLEAN : OnClickOutside(inPath) /\ UNCHANGED hist

Spec == Init /\ [][Next]_vars

\* dropdown visibility and the window listener, remembering the operation
\* before the last one
NextDropdown ==
    \/ \E visible \in BOOLEAN : ToggleDropdownOp(visible) /\ prevOp' = lastOp /\ UNCHANGED lastList
    \/ OnFaceClick /\ prevOp' = lastOp /\ UNCHANGED lastList
    \/ OnComboboxButtonClick /\ prevOp' = lastOp /\ UNCHANGED lastList
    \/ \E key \in Keys : OnComponentKeyDown(key) /\ prevOp' = lastOp /\ UNCHANGED lastList
    \/ \E inPath \in BOOLEAN : OnClickOutside(inPath) /\ prevOp' = lastOp /\ UNCHANGED lastList

SpecDropdown == Init /\ [][NextDropdown]_vars

\* the filter method, the filter pattern and the filtered view, in
\* single-selection mode
InitFilter == Init /\ ~multiple

NextFilter ==
    \/ \E opts \in FilterOptionLists : SetOptions(opts) /\ UNCHANGED hist
    \/ \E val \in FilterInputs : SetFilter(val) /\ UNCHANGED hist
    \/ \E b \in BOOLEAN : SetCombobox(b) /\ UNCHANGED hist
    \/ \E pat \in Patterns : OnFilterInput(pat) /\ UNCHANGED hist
    \/ OnComboboxButtonClick /\ UNCHANGED hist

SpecFilter == InitFilter /\ [][NextFilter]_vars

\* the options setter and getter around key events, remembering the list
\* last set and the operation before the last one
NextGet ==
    \/ \E opts \in OptionLists :
          SetOptions(opts) /\ lastList' = opts /\ prevOp' = lastOp
    \/ GetOptionsOp /\ prevOp' = lastOp /\ UNCHANGED lastList
    \/ \E key \in Keys :
          OnComponentKeyDown(key) /\ prevOp' = lastOp /\ UNCHANGED lastList

SpecGet == Init /\ [][NextGet]_vars

\* the button: enabling and disabling, clicks and key events
NextButton ==
    \/ \E v \in BOOLEAN : ButtonSetDisabled(v) /\ UNCHANGED hist
    \/ ButtonUpdate /\ UNCHANGED hist
    \/ \E has \in BOOLEAN : ButtonSetAttribute(has) /\ UNCHANGED hist
    \/ \E t \in ButtonTypes : ButtonSetType(t) /\ UNCHANGED hist
    \/ \E f \in BOOLEAN : ButtonSetForm(f) /\ UNCHANGED hist
    \/ ButtonHandleClick /\ UNCHANGED hist
    \/ \E key \in ButtonKeys : ButtonHandleKeyDown(key) /\ UNCHANGED hist

\* the select next to the button stays as constructed, in single-selection mode
InitButton == Init /\ ~multiple

SpecButton == InitButton /\ [][NextButton]_vars

\* the element's lifecycle: its handlers run while their listeners are
\* registered, the face is clicked while the element is in the document
NextLifecycle ==
    \/ ConnectedCallback /\ UNCHANGED hist
    \/ DisconnectedCallback /\ UNCHANGED hist
    \/ OnComponentFocus /\ UNCHANGED hist
    \/ OnComponentBlur /\ UNCHANGED hist
    \/ \E key \in Keys :
          "keydown" \in host.listeners /\ OnComponentKeyDown(key) /\ UNCHANGED hist
    \/ host.connected /\ OnFaceClick /\ UNCHANGED hist
    \/ \E visible \in BOOLEAN : ToggleDropdownOp(visible) /\ UNCHANGED hist
    \/ \E inPath \in BOOLEAN : OnClickOutside(inPath) /\ UNCHANGED hist

SpecLifecycle == Init /\ [][NextLifecycle]_vars

----------------------------------------------------------------------------
(* Properties *)

SelectedPositions == {i \in 1..Len(options) : options[i].selected}

\* C1: in single-selection mode at most one option of the list has
\* selected = true, in every reachable state.
AtMostOneSelected == ~multiple => Cardinality(SelectedPositions) <= 1

\* C2: ArrowDown at selectedIndex = length - 1 and ArrowUp at
\* selectedIndex = 0 emit no notification and leave selectedIndex,
\* activeIndex, dropdownVisible and every selected flag unchanged.
ArrowAtEdgeIsNoOp ==
    [][(/\ lastOp'.op = "keydown"
        /\ \/ lastOp'.arg = "ArrowDown" /\ selectedIndex = Len(options) - 1
           \/ lastOp'.arg = "ArrowUp" /\ selectedIndex = 0)
       => /\ emitted' = <<>>
          /\ UNCHANGED <<selectedIndex, activeIndex, showDropdown, options>>]_vars

\* an ArrowDown that was handled at the last index of a non-empty list
ArrowAtEdgeWitness ==
    /\ ~multiple
    /\ lastOp = Op("keydown", "ArrowDown")
    /\ Len(options) > 1
    /\ selectedIndex = Len(options) - 1
    /\ options[selectedIndex + 1].selected
    /\ emitted = <<>>

\* C3: every key event completes without raising an error.
KeyEventsNeverThrow == ~threw

\* C4: the window-level outside-click listener is registered at most once
\* in every reachable state, and exactly once after two consecutive
\* toggleDropdown(true) calls.
ListenerRegisteredAtMostOnce ==
    /\ Len(windowListeners) <= 1
    /\ (lastOp = Op("toggleDropdown", "true") /\ prevOp = Op("toggleDropdown", "true"))
          => Len(windowListeners) = 1

\* toggleDropdown(true) has been called twice in a row
ToggleTwiceWitness ==
    /\ lastOp = Op("toggleDropdown", "true")
    /\ prevOp = Op("toggleDropdown", "true")
    /\ Len(windowListeners) = 1
    /\ showDropdown

\* C5: the outside-click listener is registered if and only if
\* dropdownVisible is true.
ListenerIffVisible == (Len(windowListeners) >= 1) <=> showDropdown

\* C6: an outside click on an open dropdown whose path excludes the
\* component closes it and unregisters the listener; one whose path
\* contains the component changes no controller state.
OutsideClickCloses ==
    [][(lastOp'.op = "windowClick" /\ showDropdown)
       => IF lastOp'.arg = "outside"
          THEN ~showDropdown' /\ windowListeners' = <<>>
          ELSE UNCHANGED ctrlVars]_vars

\* an outside click has closed a dropdown that toggleDropdown(true) opened
OutsideClickWitness ==
    /\ lastOp = Op("windowClick", "outside")
    /\ prevOp = Op("toggleDropdown", "true")
    /\ ~showDropdown
    /\ windowListeners = <<>>

\* C7: in multiple-selection mode no change notification is emitted.
NoChangeEventInMultiple == multiple => emitted = <<>>

\* in multiple-selection mode an ArrowDown has moved the selection from
\* none to the first option of a longer list
MultipleNavigationWitness ==
    /\ multiple
    /\ lastOp = Op("keydown", "ArrowDown")
    /\ Len(options) > 1
    /\ selectedIndex = 0
    /\ activeIndex = 0
    /\ options[1].selected
    /\ emitted = <<>>

\* C8: setFilter(v) never fails; the filter reads back as v when v is one
\* of the four method names and as fuzzy otherwise, and a diagnostic is
\* emitted exactly in the otherwise case.
SetFilterFallsBack ==
    lastOp.op = "setFilter" =>
        LET recognized == lastOp.arg \in {"contains", "fuzzy", "startsWith",
                                          "startsWithPerTerm"}
        IN /\ ~threw
           /\ filter = (IF recognized THEN lastOp.arg ELSE "fuzzy")
           /\ (Len(warned) = 1) <=> ~recognized
           /\ (Len(warned) = 0) <=> recognized

\* setFilter("regex") has fallen back to fuzzy with one diagnostic
SetFilterWitness ==
    /\ lastOp = Op("setFilter", "regex")
    /\ filter = "fuzzy"
    /\ Len(warned) = 1
    /\ ~threw

\* C9: the diagnostic names the rejected value, and the set of method
\* names it lists equals the set of values the setter accepts.
WarningListsAcceptedSet ==
    \A i \in 1..Len(warned) :
        /\ warned[i].invalid = lastOp.arg
        /\ warned[i].validListed = {"contains", "fuzzy", "startsWith",
                                    "startsWithPerTerm"}

\* picking the positions of S out of list, in order
RECURSIVE PickPositions(_, _, _)
PickPositions(list, S, n) ==
    IF n = 0 THEN <<>>
    ELSE IF n \in S THEN Append(PickPositions(list, S, n - 1), list[n])
    ELSE PickPositions(list, S, n - 1)

IsSubsequenceOf(sub, list) ==
    \E S \in SUBSET (1..Len(list)) : sub = PickPositions(list, S, Len(list))

\* C10: filteredOptions() is a subsequence of the option list: entries
\* of the list, in their relative order, none twice.
FilteredIsSubsequence ==
    IsSubsequenceOf(FilteredOptions(options, combobox, filterPattern, filter),
                    options)

\* a filter that keeps the first and the last of three options
FilteredWitness ==
    /\ combobox
    /\ filterPattern # <<>>
    /\ Len(options) = 3
    /\ FilteredOptions(options, combobox, filterPattern, filter)
         = <<options[1], options[3]>>

\* C11: the option at position i of the option list has index = i, after
\* any sequence of setOptions, ingestFromSource and key events; ingestion
\* skips non-option nodes without leaving gaps.
IndexIsPosition == \A i \in 1..Len(options) : options[i].index = i - 1

\* an ingestion that skipped a node and kept two options
IndexIsPositionWitness ==
    /\ lastOp = Op("ingestFromSource", "skipped")
    /\ Len(options) = 2
    /\ options[1].index = 0
    /\ options[2].index = 1

\* C12: getOptions() changes no controller state and returns the entries
\* of the list in order with exactly the fields label, value, description
\* and selected; right after setOptions(L) it returns L.
GetOptionsStripsIndex ==
    [][lastOp'.op = "getOptions"
       => /\ UNCHANGED ctrlVars
          /\ Len(returned') = Len(options)
          /\ \A i \in 1..Len(options) :
                returned'[i] = [label |-> options[i].label,
                                value |-> options[i].value,
                                description |-> options[i].description,
                                selected |-> options[i].selected]
          /\ lastOp.op = "setOptions" => returned' = lastList]_vars

\* getOptions() right after setting a full-length list with a selected entry
GetOptionsWitness ==
    /\ lastOp.op = "getOptions"
    /\ prevOp.op = "setOptions"
    /\ Len(lastList) = MaxLen
    /\ \E i \in 1..Len(lastList) : lastList[i].selected
    /\ returned = lastList
    /\ \A i \in 1..Len(options) : options[i].index = i - 1

\* C13: a click or key event handled while the disabled attribute is
\* present dispatches no vsc-click and calls no form method; a click or an
\* Enter/Space keydown handled while it is absent dispatches exactly one
\* vsc-click.
VscClickOnlyWhenEnabled ==
    (\/ lastOp.op = "buttonClick"
     \/ lastOp.op = "buttonKeydown" /\ lastOp.arg \in {"Enter", " "})
    => IF button.disabledAttr
       THEN emitted = <<>> /\ formCalls = <<>>
       ELSE Len(emitted) = 1 /\ emitted[1].type = "vsc-click"

\* a click on a disabled submit button inside a form, whose property has
\* already been set back to enabled
DisabledClickWitness ==
    /\ lastOp.op = "buttonClick"
    /\ button.disabledAttr
    /\ ~button.disabled
    /\ button.type = "submit"
    /\ button.inForm
    /\ emitted = <<>>
    /\ formCalls = <<>>

\* C14: in single-selection mode ArrowUp with selectedIndex > 0 and
\* ArrowDown with selectedIndex < length - 1 move the selection by exactly
\* one step (ArrowDown from -1 goes to 0): the previously selected option
\* is deselected, the option at the new selectedIndex is selected,
\* activeIndex equals the new selectedIndex, dropdownVisible is unchanged
\* and exactly one change notification carrying the new selectedIndex is
\* emitted.
ArrowMovesOneStep ==
    [][(/\ ~multiple
        /\ lastOp'.op = "keydown"
        /\ \/ lastOp'.arg = "ArrowUp" /\ selectedIndex > 0
           \/ lastOp'.arg = "ArrowDown" /\ selectedIndex < Len(options) - 1)
       => LET new == IF lastOp'.arg = "ArrowUp" THEN selectedIndex - 1
                     ELSE IF selectedIndex = -1 THEN 0
                     ELSE selectedIndex + 1
          IN /\ ~threw'
             /\ selectedIndex' = new
             /\ activeIndex' = new
             /\ showDropdown' = showDropdown
             /\ Len(options') = Len(options)
             /\ new >= 0 /\ new < Len(options')
             /\ options'[new + 1].selected
             /\ selectedIndex >= 0 =>
                   /\ selectedIndex < Len(options')
                   /\ ~options'[selectedIndex + 1].selected
             /\ Len(emitted') = 1
             /\ emitted'[1].type = "vsc-change"
             /\ emitted'[1].selectedIndex = new]_vars

\* C15: Enter toggles dropdownVisible, Space makes it true, Escape and Tab
\* make it false; none of the four changes selectedIndex, activeIndex or a
\* selected flag, and none emits a change notification.
VisibilityKeys ==
    [][(lastOp'.op = "keydown" /\ lastOp'.arg \in {"Enter", " ", "Escape", "Tab"})
       => /\ showDropdown' = (CASE lastOp'.arg = "Enter" -> ~showDropdown
                                [] lastOp'.arg = " " -> TRUE
                                [] OTHER -> FALSE)
          /\ UNCHANGED <<selectedIndex, activeIndex, options>>
          /\ emitted' = <<>>
          /\ ~threw']_vars

\* Enter has closed the dropdown while an option of a longer list is selected
VisibilityKeysWitness ==
    /\ lastOp = Op("keydown", "Enter")
    /\ ~showDropdown
    /\ windowListeners = <<>>
    /\ Len(options) > 1
    /\ selectedIndex >= 0 /\ selectedIndex < Len(options)
    /\ options[selectedIndex + 1].selected

\* C16: ariaExpanded equals the string form of dropdownVisible in every
\* reachable state.
AriaMirrorsVisibility == ariaExpanded = (IF showDropdown THEN "true" ELSE "false")

\* C17: every change notification emitted by an arrow key carries the
\* value of the option at the selectedIndex it carries.
ChangeEventCarriesOptionValue ==
    \A k \in 1..Len(emitted) :
        emitted[k].type = "vsc-change" =>
            /\ emitted[k].selectedIndex >= 0
            /\ emitted[k].selectedIndex < Len(options)
            /\ emitted[k].value = options[emitted[k].selectedIndex + 1].value

\* C18: in single-selection mode selectedIndex is within -1 .. length - 1
\* and, when it is not -1, the option at that position is selected.
SelectedIndexDenotesSelected ==
    ~multiple =>
        /\ selectedIndex >= -1
        /\ selectedIndex <= Len(options) - 1
        /\ selectedIndex >= 0 => options[selectedIndex + 1].selected

\* C19: outside combobox mode, or with an empty filter pattern,
\* filteredOptions() is the full option list whatever the filter method;
\* after a combobox-button click the pattern is empty and
\* filteredOptions() is the full list.
UnfilteredIsFullList ==
    /\ (~combobox \/ filterPattern = <<>>)
         => FilteredOptions(options, combobox, filterPattern, filter) = options
    /\ lastOp.op = "comboboxButtonClick"
         => /\ filterPattern = <<>>
            /\ FilteredOptions(options, combobox, filterPattern, filter) = options

\* outside combobox mode with a pattern that some option does not match
UnfilteredWitness ==
    /\ ~combobox
    /\ filterPattern # <<>>
    /\ Len(options) = 3
    /\ \E i \in 1..3 : ~MatchFuzzy(options[i].label, filterPattern)
    /\ \E i \in 1..3 : ~MatchContains(options[i].label, filterPattern)
    /\ FilteredOptions(options, combobox, filterPattern, filter) = options

\* C20: after disconnectedCallback no listener registered by the component
\* remains, neither on the element nor on the window.
NoListenerAfterDetach ==
    lastOp.op = "disconnected" =>
        /\ host.listeners = {}
        /\ windowListeners = <<>>

====
